---- MODULE Spec2Model ----
(***************************************************************************)
(* A model of src/hotspot/share/jvmci/jvmci.cpp: the JVMCI counter         *)
(* registry, the shared-library loader, the crash logger (fatal_log), the  *)
(* event/trace log and shutdown.                                           *)
(***************************************************************************)
EXTENDS Integers, Sequences, FiniteSets, TLC

\* ------------------------------------------------------------------ bounds
NThreads == 2      \* thread ids 1..NThreads
MaxSize == 2       \* largest counter count (JVMCICounterSize, new_size)
MaxIncr == 2       \* increments all threads make in one behaviour
MaxAllocFailures == 1  \* allocations that fail in one behaviour

MaxEvents == 3     \* event calls in one behaviour
MaxEntries == 2    \* largest LogEventsBufferEntries
MaxCalls == 2      \* get_shared_library / shutdown calls one thread starts
MaxFatalCalls == 2 \* fatal_log calls one thread makes

\* The number of event levels (JVMCI::event1 .. event4).
max_EventLog_level == 4

Threads == 1..NThreads
\* Thread::current_or_null_safe() of a thread that is not attached; no owner.
NoThread == 0
\* A NULL library handle; the n-th os::dll_load returns handle n.
NoHandle == 0
\* A NULL char*.
NoPath == <<>>
\* A NULL JVMCIRuntime*, and the two runtimes initialize_globals can create.
NoRuntime == "NULL"
\* intx invalid_id = -1 in fatal_log, and the -1 of an unset _fatal_log_fd.
invalid_id == -1
NoFd == -1
\* The descriptors VMError::prepare_log_file can return for the file it creates.
OpenFds == {3}
Runtimes == {"JVMCIRuntime(0)", "JVMCIRuntime(-1)"}
\* Thread 1 is a compiler thread (is_Compiler_thread()), the others are not.
CompilerThreads == {1}
\* What a read past the end of a heap array can return.
Garbage == {0, 1}

VARIABLES
  \* ---- counter registry
  JVMCICounterSize,            \* the flag JVMCICounterSize
  JVMCICountersExcludeCompiler,\* the flag JVMCICountersExcludeCompiler
  jvmci_old_thread_counters,   \* JVMCI::_jvmci_old_thread_counters (retired pool)
  jvmci_counters,              \* thread -> JVMCIThreadState::_jvmci_counters
  threadsList,                 \* the ThreadsList a ThreadsListHandle iterates
  tstate,                      \* thread -> "new" | "live" | "folded" | "removed" | "freed"
  countersInit,                \* init_counters has run
  array,                       \* the array the last operation, a collect_counters, filled
  lastOp,                      \* the last counter operation and its result
  oob,                         \* some access went past the end of an array
  freed,                       \* threads whose block went to FREE_C_HEAP_ARRAY
  pool_freed,                  \* free_counters() has released the retired pool
  nIncr, nFail,                \* increments made, allocations failed (bounded)
  \* ---- flags of the event log, the runtimes and the library
  LogEvents, JVMCIEventLogLevel, JVMCITraceLevel, LogEventsBufferEntries,
  UseJVMCINativeLibrary, JVMCILibPath,
  \* ---- event/trace log
  events,                      \* JVMCI::_events
  verbose_events,              \* JVMCI::_verbose_events
  tty,                         \* the lines printed to tty
  nEvents,                     \* event calls made so far (bounded)
  \* ---- lifecycle
  globalsInit,                 \* initialize_globals has run
  compiler_runtime,            \* JVMCI::_compiler_runtime
  java_runtime,                \* JVMCI::_java_runtime
  in_shutdown,                 \* JVMCI::_in_shutdown
  rt_shutdowns,                \* caller -> runtime -> JVMCIRuntime::shutdown calls made
  shutdown_calls,              \* caller -> JVMCI::shutdown calls it has started
  JVMCI_lock,                  \* owner of JVMCI_lock, NoThread when free
  \* ---- shared library
  shared_library_handle,       \* JVMCI::_shared_library_handle
  shared_library_path,         \* JVMCI::_shared_library_path
  dll_loads,                   \* executions of os::dll_load
  vm_fatal,                    \* fatal() or a failed guarantee ended the process
  pc,                          \* thread -> its position in get_shared_library / shutdown
  frame,                       \* thread -> the locals of its call
  gsl_ret,                     \* thread -> what its last get_shared_library returned
  nCalls,                      \* thread -> calls started so far (bounded)
  \* ---- crash logger
  ErrorFileToStdout, ErrorFileToStderr,
  fatal_log_init_thread,       \* JVMCI::_fatal_log_init_thread
  fatal_log_fd,                \* JVMCI::_fatal_log_fd
  fatal_log_filename,          \* JVMCI::_fatal_log_filename
  fpc,                         \* thread -> its position in fatal_log
  log_fd,                      \* thread -> the local log_fd of fatal_log
  writes,                      \* the buffers written: who wrote, to which descriptor
  resolvers,                   \* the threads that ran the target-resolution branch
  nFatal                       \* thread -> fatal_log calls made so far (bounded)

varsCounters == <<JVMCICounterSize, JVMCICountersExcludeCompiler, jvmci_old_thread_counters,
                  jvmci_counters, threadsList, tstate, countersInit, array, lastOp, oob,
                  freed, pool_freed, nIncr, nFail>>

varsFlags == <<LogEvents, JVMCIEventLogLevel, JVMCITraceLevel, LogEventsBufferEntries,
               UseJVMCINativeLibrary, JVMCILibPath>>
varsLog == <<events, verbose_events, tty, nEvents>>
varsLife == <<globalsInit, compiler_runtime, java_runtime, in_shutdown, rt_shutdowns,
              shutdown_calls, JVMCI_lock>>
varsLib == <<shared_library_handle, shared_library_path, dll_loads, vm_fatal, pc, frame,
             gsl_ret, nCalls>>

varsFatal == <<ErrorFileToStdout, ErrorFileToStderr, fatal_log_init_thread, fatal_log_fd,
               fatal_log_filename, fpc, log_fd, writes, resolvers, nFatal>>

vars == <<varsCounters, varsFlags, varsLog, varsLife, varsLib, varsFatal>>

\* ------------------------------------------------------------------ helpers
MIN2(a, b) == IF a < b THEN a ELSE b

\* lastOp when the last operation was neither a resize nor a collect.
NoOp == [op |-> "none", ret |-> TRUE, new_size |-> 0]

\* A jlong* : NULL, or a heap array (a sequence of counters, index 1 is C index 0).
NULLP == [null |-> TRUE, a |-> <<>>]
HeapArray(s) == [null |-> FALSE, a |-> s]
Zeros(n) == [i \in 1..n |-> 0]

\* p[i] in C (i is the 1-based index): past the end of the array the read is
\* undefined and returns whatever the heap holds there, g.
ReadAt(p, i, g) == IF i <= Len(p.a) THEN p.a[i] ELSE g

RECURSIVE SeqToSet(_)
SeqToSet(s) == IF s = <<>> THEN {} ELSE {Head(s)} \cup SeqToSet(Tail(s))

RECURSIVE RemoveFrom(_, _)
RemoveFrom(s, t) ==
  IF s = <<>> THEN <<>>
  ELSE IF Head(s) = t THEN Tail(s) ELSE <<Head(s)>> \o RemoveFrom(Tail(s), t)

\* An inclusion predicate that ignores the exclusion policy.
jvmci_counters_include_all(t) == TRUE

\* ------------------------------------------------------------------ counters
\* jvmci_counters_include(thread)
jvmci_counters_include(t) ==
  ~JVMCICountersExcludeCompiler \/ ~(t \in CompilerThreads)

\* resize_counters_array(old_counters, current_size, new_size); alloc_ok is the
\* outcome of NEW_C_HEAP_ARRAY_RETURN_NULL. Returns the new array, NULL on failure.
resize_counters_array(old_counters, current_size, new_size, alloc_ok, g) ==
  IF ~alloc_ok THEN NULLP
  ELSE IF old_counters.null THEN HeapArray(Zeros(new_size))
  ELSE HeapArray([i \in 1..new_size |->
                    IF i <= MIN2(current_size, new_size)
                    THEN ReadAt(old_counters, i, g)
                    ELSE 0])

\* Whether resize_counters_array copies from past the end of old_counters.
resize_reads_past_end(old_counters, current_size, new_size, alloc_ok) ==
  alloc_ok /\ ~old_counters.null /\ MIN2(current_size, new_size) > Len(old_counters.a)

\* JVMCI::resize_counters(thread, current_size, new_size): the thread's counters
\* after the call (unchanged when the allocation fails) and the value returned.
resize_counters(ctrs, t, current_size, new_size, alloc_ok, g) ==
  LET new_counters == resize_counters_array(ctrs[t], current_size, new_size, alloc_ok, g)
  IN  IF new_counters.null
      THEN [counters |-> ctrs, ret |-> FALSE]
      ELSE [counters |-> [ctrs EXCEPT ![t] = new_counters], ret |-> TRUE]

\* The loop of VM_JVMCIResizeCounters::doit over the ThreadsListHandle, from
\* position k of list; the failAt-th allocation of the operation fails
\* (allocation 0 is the retired pool's, allocation k the k-th thread's).
RECURSIVE ResizeThreads(_, _, _, _, _, _, _)
ResizeThreads(ctrs, list, k, current_size, new_size, failAt, g) ==
  IF k > Len(list) THEN [counters |-> ctrs, failed |-> FALSE, past |-> FALSE]
  ELSE LET tp == list[k]
           r == resize_counters(ctrs, tp, current_size, new_size, failAt # k, g)
           p == resize_reads_past_end(ctrs[tp], current_size, new_size, failAt # k)
       IN  IF ~r.ret
           THEN [counters |-> r.counters, failed |-> TRUE, past |-> FALSE]
           ELSE LET rest == ResizeThreads(r.counters, list, k + 1, current_size,
                                          new_size, failAt, g)
                IN  [rest EXCEPT !.past = rest.past \/ p]

\* VM_JVMCIResizeCounters::doit: the state it leaves, as a record.
doit(new_size, failAt, g) ==
  LET new_counters == resize_counters_array(jvmci_old_thread_counters, JVMCICounterSize,
                                            new_size, failAt # 0, g)
      p0 == resize_reads_past_end(jvmci_old_thread_counters, JVMCICounterSize,
                                  new_size, failAt # 0)
  IN  IF new_counters.null
      THEN [old |-> jvmci_old_thread_counters, counters |-> jvmci_counters,
            size |-> JVMCICounterSize, failed |-> TRUE, past |-> FALSE]
      ELSE LET r == ResizeThreads(jvmci_counters, threadsList, 1, JVMCICounterSize,
                                  new_size, failAt, g)
           IN  [old |-> new_counters, counters |-> r.counters,
                size |-> IF ~r.failed THEN new_size ELSE JVMCICounterSize,
                failed |-> r.failed, past |-> p0 \/ r.past]

\* JVMCI::resize_all_jvmci_counters(new_size): the VM operation runs at a
\* safepoint, so no other step interleaves with doit.
resize_all_jvmci_counters(new_size, failAt, g) ==
  /\ countersInit /\ ~pool_freed
  /\ failAt \in 0..(Len(threadsList) + 1)
  /\ (failAt <= Len(threadsList) => nFail < MaxAllocFailures)
  /\ nFail' = IF failAt <= Len(threadsList) THEN nFail + 1 ELSE nFail
  /\ LET r == doit(new_size, failAt, g)
     IN  /\ (~r.past => g = 0)
         /\ jvmci_old_thread_counters' = r.old
         /\ jvmci_counters' = r.counters
         /\ JVMCICounterSize' = r.size
         /\ oob' = (oob \/ r.past)
         /\ lastOp' = [op |-> "resize", ret |-> ~r.failed, new_size |-> new_size]
  /\ array' = <<>>
  /\ UNCHANGED <<varsFlags, varsLog, varsLife, varsLib, varsFatal, pool_freed,
                 JVMCICountersExcludeCompiler, threadsList, tstate, countersInit, freed, nIncr>>

\* The loop of JVMCI::collect_counters over the ThreadsListHandle, from position
\* k of list: arr with every included thread's counters added.
RECURSIVE CollectThreads(_, _, _, _, _)
CollectThreads(arr, list, k, length, g) ==
  IF k > Len(list) THEN arr
  ELSE LET tp == list[k]
           next == IF jvmci_counters_include(tp)
                   THEN [i \in 1..length |-> arr[i] + ReadAt(jvmci_counters[tp], i, g)]
                   ELSE arr
       IN  CollectThreads(next, list, k + 1, length, g)

\* The array JVMCI::collect_counters(array, length) fills when the threads are
\* visited in the order of list.
collect_over(list, length, g) ==
  CollectThreads([i \in 1..length |-> ReadAt(jvmci_old_thread_counters, i, g)],
                 list, 1, length, g)

\* Whether collect_counters reads past the end of the pool or of a block.
collect_reads_past_end(length) ==
  \/ length > Len(jvmci_old_thread_counters.a)
  \/ \E k \in 1..Len(threadsList) :
       /\ jvmci_counters_include(threadsList[k])
       /\ length > Len(jvmci_counters[threadsList[k]].a)

\* JVMCI::collect_counters(array, length), called with length == JVMCICounterSize
\* (the assert of line 303).
collect_counters(g) ==
  /\ countersInit /\ ~pool_freed
  /\ (~collect_reads_past_end(JVMCICounterSize) => g = 0)
  /\ array' = collect_over(threadsList, JVMCICounterSize, g)
  /\ oob' = (oob \/ collect_reads_past_end(JVMCICounterSize))
  /\ lastOp' = [op |-> "collect", ret |-> TRUE, new_size |-> 0]
  /\ UNCHANGED <<varsFlags, varsLog, varsLife, varsLib, varsFatal, pool_freed,
                 JVMCICounterSize, JVMCICountersExcludeCompiler, jvmci_old_thread_counters,
                 jvmci_counters, threadsList, tstate, countersInit, freed, nIncr, nFail>>

\* The retired pool after JVMCI::accumulate_counters(thread); a write past the
\* end of the pool is not kept.
accumulated_pool(t, g) ==
  IF JVMCICounterSize > 0 /\ jvmci_counters_include(t)
  THEN [jvmci_old_thread_counters EXCEPT
          !.a = [i \in 1..Len(jvmci_old_thread_counters.a) |->
                   IF i <= JVMCICounterSize
                   THEN jvmci_old_thread_counters.a[i] + ReadAt(jvmci_counters[t], i, g)
                   ELSE jvmci_old_thread_counters.a[i]]]
  ELSE jvmci_old_thread_counters

accumulate_past_end(t) ==
  /\ JVMCICounterSize > 0 /\ jvmci_counters_include(t)
  /\ \/ JVMCICounterSize > Len(jvmci_old_thread_counters.a)
     \/ JVMCICounterSize > Len(jvmci_counters[t].a)

\* JVMCI::accumulate_counters(thread): the first step of a thread's exit.
accumulate_counters(t, g) ==
  /\ tstate[t] = "live" /\ ~pool_freed
  /\ (~accumulate_past_end(t) => g = 0)
  /\ jvmci_old_thread_counters' = accumulated_pool(t, g)
  /\ oob' = (oob \/ accumulate_past_end(t))
  /\ tstate' = [tstate EXCEPT ![t] = "folded"]
  /\ lastOp' = NoOp
  /\ array' = <<>>
  /\ UNCHANGED <<varsFlags, varsLog, varsLife, varsLib, varsFatal, pool_freed,
                 JVMCICounterSize, JVMCICountersExcludeCompiler, jvmci_counters,
                 threadsList, countersInit, freed, nIncr, nFail>>

\* The exiting thread leaves the ThreadsList.
ThreadRemove(t) ==
  /\ tstate[t] = "folded"
  /\ threadsList' = RemoveFrom(threadsList, t)
  /\ tstate' = [tstate EXCEPT ![t] = "removed"]
  /\ lastOp' = NoOp
  /\ array' = <<>>
  /\ UNCHANGED <<varsFlags, varsLog, varsLife, varsLib, varsFatal, pool_freed,
                 JVMCICounterSize, JVMCICountersExcludeCompiler, jvmci_old_thread_counters,
                 jvmci_counters, countersInit, oob, freed, nIncr, nFail>>

\* JVMCI::free_counters(JavaThread* thread)
free_counters_thread(t) ==
  /\ tstate[t] = "removed"
  /\ freed' = IF JVMCICounterSize > 0 THEN freed \cup {t} ELSE freed
  /\ tstate' = [tstate EXCEPT ![t] = "freed"]
  /\ lastOp' = NoOp
  /\ array' = <<>>
  /\ UNCHANGED <<varsFlags, varsLog, varsLife, varsLib, varsFatal, pool_freed,
                 JVMCICounterSize, JVMCICountersExcludeCompiler, jvmci_old_thread_counters,
                 jvmci_counters, threadsList, countersInit, oob, nIncr, nFail>>

\* A new JavaThread: its block is created with the configured counter count,
\* zero-filled, and the thread joins the ThreadsList.
ThreadStart(t) ==
  /\ countersInit
  /\ tstate[t] = "new"
  /\ jvmci_counters' =
       IF JVMCICounterSize > 0
       THEN resize_counters(jvmci_counters, t, 0, JVMCICounterSize, TRUE, 0).counters
       ELSE jvmci_counters
  /\ threadsList' = Append(threadsList, t)
  /\ tstate' = [tstate EXCEPT ![t] = "live"]
  /\ lastOp' = NoOp
  /\ array' = <<>>
  /\ UNCHANGED <<varsFlags, varsLog, varsLife, varsLib, varsFatal, pool_freed,
                 JVMCICounterSize, JVMCICountersExcludeCompiler, jvmci_old_thread_counters,
                 countersInit, oob, freed, nIncr, nFail>>

\* A live thread counts: it adds one to one of its own counters.
Increment(t, i) ==
  /\ tstate[t] = "live"
  /\ i <= Len(jvmci_counters[t].a)
  /\ nIncr < MaxIncr
  /\ nIncr' = nIncr + 1
  /\ jvmci_counters' = [jvmci_counters EXCEPT ![t].a[i] = @ + 1]
  /\ lastOp' = NoOp
  /\ array' = <<>>
  /\ UNCHANGED <<varsFlags, varsLog, varsLife, varsLib, varsFatal, pool_freed,
                 JVMCICounterSize, JVMCICountersExcludeCompiler, jvmci_old_thread_counters,
                 threadsList, tstate, countersInit, oob, freed, nFail>>

\* JVMCI::init_counters()
init_counters ==
  /\ ~countersInit
  /\ jvmci_old_thread_counters' =
       IF JVMCICounterSize > 0 THEN HeapArray(Zeros(JVMCICounterSize)) ELSE NULLP
  /\ countersInit' = TRUE
  /\ lastOp' = NoOp
  /\ array' = <<>>
  /\ UNCHANGED <<varsFlags, varsLog, varsLife, varsLib, varsFatal, pool_freed,
                 JVMCICounterSize, JVMCICountersExcludeCompiler, jvmci_counters,
                 threadsList, tstate, oob, freed, nIncr, nFail>>

\* JVMCI::free_counters(), called when the VM is done with the counters: the
\* retired pool is not collected, folded into or resized afterwards.
free_counters ==
  /\ countersInit /\ ~pool_freed
  /\ pool_freed' = (JVMCICounterSize > 0)
  /\ lastOp' = [op |-> "free_counters", ret |-> TRUE, new_size |-> 0]
  /\ array' = <<>>
  /\ UNCHANGED <<varsFlags, varsLog, varsLife, varsLib, varsFatal,
                 JVMCICounterSize, JVMCICountersExcludeCompiler, jvmci_old_thread_counters,
                 jvmci_counters, threadsList, tstate, countersInit, oob, freed, nIncr, nFail>>

\* ------------------------------------------------------------------ event log
\* A StringEventLog*: NULL, or a circular buffer of count entries.
NoLog == [null |-> TRUE, count |-> 0, entries |-> <<>>]
StringEventLog(count) == [null |-> FALSE, count |-> count, entries |-> <<>>]

\* StringEventLog::logv: the entry is appended, the oldest is overwritten when
\* the buffer is full.
logv(log, thread, msg) ==
  LET e == Append(log.entries, [thread |-> thread, msg |-> msg])
  IN  [log EXCEPT !.entries = IF Len(e) > log.count THEN Tail(e) ELSE e]

\* The buffer JVMCI::vlog selects for level.
vlog_buffer(level) == IF level = 1 THEN events ELSE verbose_events

\* A level check that leaves out the events at the configured verbosity itself.
vlog_enabled_strict(level) == LogEvents /\ JVMCIEventLogLevel > level

\* Whether the level check of JVMCI::vlog passes.
vlog_enabled(level) == LogEvents /\ JVMCIEventLogLevel >= level

\* Whether guarantee(events != NULL) of JVMCI::vlog fails.
vlog_guarantee_fails(level) == vlog_enabled(level) /\ vlog_buffer(level).null

\* A vlog that records for a caller without a Thread as well.
vlog_records_any(level, thread) ==
  vlog_enabled(level) /\ ~vlog_buffer(level).null

\* Whether JVMCI::vlog(level, ...) called by thread records an entry.
vlog_records(level, thread) ==
  vlog_enabled(level) /\ ~vlog_buffer(level).null /\ thread # NoThread

\* JVMCI::vlog(level, format, ap) called by thread.
vlog(level, thread, msg) ==
  /\ events' = IF vlog_records(level, thread) /\ level = 1
               THEN logv(events, thread, msg) ELSE events
  /\ verbose_events' = IF vlog_records(level, thread) /\ level # 1
                       THEN logv(verbose_events, thread, msg) ELSE verbose_events

\* The line JVMCI::vtrace prints: "JVMCITrace-<level>[<thread name or ?>]: <msg>".
trace_line(level, thread, msg) ==
  [level |-> level,
   name |-> IF thread # NoThread THEN <<"thread", thread>> ELSE <<"?">>,
   msg |-> msg]

\* JVMCI::vtrace(level, format, ap) called by thread.
vtrace(level, thread, msg) ==
  tty' = IF JVMCITraceLevel >= level
         THEN Append(tty, trace_line(level, thread, msg))
         ELSE tty

\* LOG_TRACE(level): vlog, then vtrace unless the guarantee of vlog ended the
\* process. The message carries the number of the call.
LOG_TRACE(level, thread, text) ==
  /\ vlog(level, thread, <<text, nEvents + 1>>)
  /\ IF vlog_guarantee_fails(level)
     THEN tty' = tty
     ELSE vtrace(level, thread, <<text, nEvents + 1>>)
  /\ vm_fatal' = (vm_fatal \/ vlog_guarantee_fails(level))
  /\ nEvents' = nEvents + 1

\* JVMCI::event(level, format, ...) and event1 .. event4, called by thread
\* (NoThread: a thread that is not attached to the VM).
event(level, thread) ==
  /\ ~vm_fatal
  /\ nEvents < MaxEvents
  /\ LOG_TRACE(level, thread, "event")
  /\ UNCHANGED <<varsCounters, varsFatal, varsFlags, varsLife, shared_library_handle,
                 shared_library_path, dll_loads, pc, frame, gsl_ret, nCalls>>

\* A sizing loop without the bound on the level.
RECURSIVE verbose_count_uncapped(_, _)
verbose_count_uncapped(count, i) ==
  IF i < JVMCIEventLogLevel
  THEN verbose_count_uncapped(count * 10, i + 1)
  ELSE count

\* The loop of JVMCI::initialize_globals that sizes the verbose buffer.
RECURSIVE verbose_count(_, _)
verbose_count(count, i) ==
  IF i < JVMCIEventLogLevel /\ i < max_EventLog_level
  THEN verbose_count(count * 10, i + 1)
  ELSE count

\* An initialization that creates the verbose buffer from verbosity 3 on only.
initialize_globals_late_verbose ==
  /\ ~globalsInit /\ ~vm_fatal
  /\ globalsInit' = TRUE
  /\ events' = IF LogEvents /\ JVMCIEventLogLevel > 0
               THEN StringEventLog(LogEventsBufferEntries) ELSE events
  /\ verbose_events' = IF LogEvents /\ JVMCIEventLogLevel > 2
                       THEN StringEventLog(verbose_count(LogEventsBufferEntries, 1))
                       ELSE verbose_events
  /\ IF UseJVMCINativeLibrary
     THEN /\ compiler_runtime' = "JVMCIRuntime(0)"
          /\ java_runtime' = "JVMCIRuntime(-1)"
     ELSE /\ compiler_runtime' = "JVMCIRuntime(0)"
          /\ java_runtime' = "JVMCIRuntime(0)"
  /\ UNCHANGED <<varsCounters, varsFatal, varsFlags, tty, nEvents, in_shutdown, rt_shutdowns,
                 shutdown_calls, JVMCI_lock, varsLib>>

\* JVMCI::initialize_globals()
initialize_globals ==
  /\ ~globalsInit /\ ~vm_fatal
  /\ globalsInit' = TRUE
  /\ events' = IF LogEvents /\ JVMCIEventLogLevel > 0
               THEN StringEventLog(LogEventsBufferEntries) ELSE events
  /\ verbose_events' = IF LogEvents /\ JVMCIEventLogLevel > 1
                       THEN StringEventLog(verbose_count(LogEventsBufferEntries, 1))
                       ELSE verbose_events
  /\ IF UseJVMCINativeLibrary
     THEN /\ compiler_runtime' = "JVMCIRuntime(0)"
          /\ java_runtime' = "JVMCIRuntime(-1)"
     ELSE /\ compiler_runtime' = "JVMCIRuntime(0)"
          /\ java_runtime' = "JVMCIRuntime(0)"
  /\ UNCHANGED <<varsCounters, varsFatal, varsFlags, tty, nEvents, in_shutdown, rt_shutdowns,
                 shutdown_calls, JVMCI_lock, varsLib>>

\* ------------------------------------------------------------------ shared library
NoFrame == [load |-> FALSE, sl_handle |-> NoHandle, path |-> NoPath, handle |-> NoHandle]
NoRet == [returned |-> FALSE, load |-> FALSE, handle |-> NoHandle, path |-> NoPath]

\* os::dll_locate_lib(path, sizeof(path), dir, JVMCI_SHARED_LIBRARY_NAME), with
\* dir JVMCILibPath when it is set and Arguments::get_dll_dir() otherwise.
dll_locate_lib ==
  IF JVMCILibPath # NoPath
  THEN <<JVMCILibPath, "JVMCI_SHARED_LIBRARY_NAME">>
  ELSE <<"dll_dir", "JVMCI_SHARED_LIBRARY_NAME">>

\* strdup(path): a copy with the same characters.
strdup(path) == [i \in 1..Len(path) |-> path[i]]

\* A caller that passes load = true without holding JVMCI_lock.
get_shared_library_call_unlocked(t, load) ==
  /\ globalsInit /\ ~vm_fatal
  /\ pc[t] = "idle"
  /\ nCalls[t] < MaxCalls
  /\ JVMCI_lock' = JVMCI_lock
  /\ pc' = [pc EXCEPT ![t] = "gsl_70"]
  /\ frame' = [frame EXCEPT ![t] = [NoFrame EXCEPT !.load = load]]
  /\ nCalls' = [nCalls EXCEPT ![t] = @ + 1]
  /\ UNCHANGED <<varsCounters, varsFatal, varsFlags, varsLog, globalsInit, compiler_runtime,
                 java_runtime, in_shutdown, rt_shutdowns, shutdown_calls, shared_library_handle,
                 shared_library_path, dll_loads, vm_fatal, gsl_ret>>

\* A caller enters JVMCI::get_shared_library(path, load); one that passes
\* load = true holds JVMCI_lock (the assert of line 75).
get_shared_library_call(t, load) ==
  /\ globalsInit /\ ~vm_fatal
  /\ pc[t] = "idle"
  /\ nCalls[t] < MaxCalls
  /\ IF load
     THEN JVMCI_lock = NoThread /\ JVMCI_lock' = t
     ELSE JVMCI_lock' = JVMCI_lock
  /\ pc' = [pc EXCEPT ![t] = "gsl_70"]
  /\ frame' = [frame EXCEPT ![t] = [NoFrame EXCEPT !.load = load]]
  /\ nCalls' = [nCalls EXCEPT ![t] = @ + 1]
  /\ UNCHANGED <<varsCounters, varsFatal, varsFlags, varsLog, globalsInit, compiler_runtime,
                 java_runtime, in_shutdown, rt_shutdowns, shutdown_calls, shared_library_handle,
                 shared_library_path, dll_loads, vm_fatal, gsl_ret>>

\* Lines 70-71: void* sl_handle = _shared_library_handle, and the branch on it.
gsl_read_handle(t) ==
  /\ ~vm_fatal
  /\ pc[t] = "gsl_70"
  /\ frame' = [frame EXCEPT ![t].sl_handle = shared_library_handle]
  /\ pc' = [pc EXCEPT ![t] = IF shared_library_handle # NoHandle \/ ~frame[t].load
                             THEN "gsl_72" ELSE "gsl_77"]
  /\ UNCHANGED <<varsCounters, varsFatal, varsFlags, varsLog, varsLife, shared_library_handle,
                 shared_library_path, dll_loads, vm_fatal, gsl_ret, nCalls>>

\* Lines 72-73: the fast path returns sl_handle and the path read now.
gsl_fast_return(t) ==
  /\ ~vm_fatal
  /\ pc[t] = "gsl_72"
  /\ gsl_ret' = [gsl_ret EXCEPT ![t] = [returned |-> TRUE, load |-> frame[t].load,
                                        handle |-> frame[t].sl_handle,
                                        path |-> shared_library_path]]
  /\ pc' = [pc EXCEPT ![t] = IF frame[t].load THEN "gsl_unlock" ELSE "idle"]
  /\ UNCHANGED <<varsCounters, varsFatal, varsFlags, varsLog, varsLife, shared_library_handle,
                 shared_library_path, dll_loads, vm_fatal, frame, nCalls>>

\* Lines 75-77: the slow path checks _shared_library_handle again.
gsl_recheck(t) ==
  /\ ~vm_fatal
  /\ pc[t] = "gsl_77"
  /\ pc' = [pc EXCEPT ![t] = IF shared_library_handle = NoHandle
                             THEN "gsl_81" ELSE "gsl_99"]
  /\ UNCHANGED <<varsCounters, varsFatal, varsFlags, varsLog, varsLife, shared_library_handle,
                 shared_library_path, dll_loads, vm_fatal, frame, gsl_ret, nCalls>>

\* A load step that carries on with a NULL handle after a failure.
gsl_load_unchecked(t, locate_ok, load_ok) ==
  /\ ~vm_fatal
  /\ pc[t] = "gsl_81"
  /\ dll_loads' = IF locate_ok THEN dll_loads + 1 ELSE dll_loads
  /\ frame' = [frame EXCEPT ![t].path = IF locate_ok THEN dll_locate_lib ELSE NoPath,
                            ![t].handle = IF locate_ok /\ load_ok
                                          THEN dll_loads + 1 ELSE NoHandle]
  /\ pc' = [pc EXCEPT ![t] = "gsl_94"]
  /\ UNCHANGED <<varsCounters, varsFatal, varsFlags, varsLog, varsLife, shared_library_handle,
                 shared_library_path, vm_fatal, gsl_ret, nCalls>>

\* Lines 78-93: the path is located and the library loaded; either can fail,
\* which is fatal.
gsl_load(t, locate_ok, load_ok) ==
  /\ ~vm_fatal
  /\ pc[t] = "gsl_81"
  /\ IF ~locate_ok
     THEN /\ vm_fatal' = TRUE
          /\ UNCHANGED <<dll_loads, frame, pc>>
     ELSE /\ dll_loads' = dll_loads + 1
          /\ IF ~load_ok
             THEN /\ vm_fatal' = TRUE
                  /\ UNCHANGED <<frame, pc>>
             ELSE /\ vm_fatal' = vm_fatal
                  /\ frame' = [frame EXCEPT ![t].path = dll_locate_lib,
                                            ![t].handle = dll_loads + 1]
                  /\ pc' = [pc EXCEPT ![t] = "gsl_94"]
  /\ UNCHANGED <<varsCounters, varsFatal, varsFlags, varsLog, varsLife, shared_library_handle,
                 shared_library_path, gsl_ret, nCalls>>

\* Line 94: _shared_library_handle = handle
gsl_store_handle(t) ==
  /\ ~vm_fatal
  /\ pc[t] = "gsl_94"
  /\ shared_library_handle' = frame[t].handle
  /\ pc' = [pc EXCEPT ![t] = "gsl_95"]
  /\ UNCHANGED <<varsCounters, varsFatal, varsFlags, varsLog, varsLife, shared_library_path,
                 dll_loads, vm_fatal, frame, gsl_ret, nCalls>>

\* Line 95: _shared_library_path = strdup(path)
gsl_store_path(t) ==
  /\ ~vm_fatal
  /\ pc[t] = "gsl_95"
  /\ shared_library_path' = strdup(frame[t].path)
  /\ pc' = [pc EXCEPT ![t] = "gsl_97"]
  /\ UNCHANGED <<varsCounters, varsFatal, varsFlags, varsLog, varsLife, shared_library_handle,
                 dll_loads, vm_fatal, frame, gsl_ret, nCalls>>

\* Line 97: JVMCI_event_1("loaded JVMCI shared library from %s", path)
gsl_event(t) ==
  /\ ~vm_fatal
  /\ pc[t] = "gsl_97"
  /\ LOG_TRACE(1, t, "loaded JVMCI shared library")
  /\ pc' = [pc EXCEPT ![t] = "gsl_99"]
  /\ UNCHANGED <<varsCounters, varsFatal, varsFlags, varsLife, shared_library_handle,
                 shared_library_path, dll_loads, frame, gsl_ret, nCalls>>

\* Lines 99-100: the slow path returns the installed handle and path.
gsl_slow_return(t) ==
  /\ ~vm_fatal
  /\ pc[t] = "gsl_99"
  /\ gsl_ret' = [gsl_ret EXCEPT ![t] = [returned |-> TRUE, load |-> frame[t].load,
                                        handle |-> shared_library_handle,
                                        path |-> shared_library_path]]
  /\ pc' = [pc EXCEPT ![t] = "gsl_unlock"]
  /\ UNCHANGED <<varsCounters, varsFatal, varsFlags, varsLog, varsLife, shared_library_handle,
                 shared_library_path, dll_loads, vm_fatal, frame, nCalls>>

\* The caller that passed load = true releases JVMCI_lock.
gsl_unlock(t) ==
  /\ ~vm_fatal
  /\ pc[t] = "gsl_unlock"
  /\ JVMCI_lock' = NoThread
  /\ pc' = [pc EXCEPT ![t] = "idle"]
  /\ UNCHANGED <<varsCounters, varsFatal, varsFlags, varsLog, globalsInit, compiler_runtime,
                 java_runtime, in_shutdown, rt_shutdowns, shutdown_calls, shared_library_handle,
                 shared_library_path, dll_loads, vm_fatal, frame, gsl_ret, nCalls>>

\* ------------------------------------------------------------------ shutdown
\* JVMCI::shutdown, line 203: MutexLocker locker(JVMCI_lock)
shutdown_lock(t) ==
  /\ globalsInit /\ ~vm_fatal
  /\ pc[t] = "idle"
  /\ nCalls[t] < MaxCalls
  /\ JVMCI_lock = NoThread
  /\ JVMCI_lock' = t
  /\ pc' = [pc EXCEPT ![t] = "sd_204"]
  /\ nCalls' = [nCalls EXCEPT ![t] = @ + 1]
  /\ shutdown_calls' = [shutdown_calls EXCEPT ![t] = @ + 1]
  /\ UNCHANGED <<varsCounters, varsFatal, varsFlags, varsLog, globalsInit, compiler_runtime,
                 java_runtime, in_shutdown, rt_shutdowns, shared_library_handle,
                 shared_library_path, dll_loads, vm_fatal, frame, gsl_ret>>

\* Line 204: _in_shutdown = true
shutdown_set_flag(t) ==
  /\ ~vm_fatal
  /\ pc[t] = "sd_204"
  /\ in_shutdown' = TRUE
  /\ pc' = [pc EXCEPT ![t] = "sd_205"]
  /\ UNCHANGED <<varsCounters, varsFatal, varsFlags, varsLog, globalsInit, compiler_runtime,
                 java_runtime, rt_shutdowns, shutdown_calls, JVMCI_lock, shared_library_handle,
                 shared_library_path, dll_loads, vm_fatal, frame, gsl_ret, nCalls>>

\* Line 205: JVMCI_event_1("shutting down JVMCI")
shutdown_event(t) ==
  /\ ~vm_fatal
  /\ pc[t] = "sd_205"
  /\ LOG_TRACE(1, t, "shutting down JVMCI")
  /\ pc' = [pc EXCEPT ![t] = "sd_206"]
  /\ UNCHANGED <<varsCounters, varsFatal, varsFlags, varsLife, shared_library_handle,
                 shared_library_path, dll_loads, frame, gsl_ret, nCalls>>

\* A shutdown that keeps JVMCI_lock across the runtime shutdowns.
shutdown_keep_lock(t) ==
  /\ ~vm_fatal
  /\ pc[t] = "sd_206"
  /\ JVMCI_lock' = JVMCI_lock
  /\ pc' = [pc EXCEPT ![t] = "sd_207"]
  /\ UNCHANGED <<varsCounters, varsFatal, varsFlags, varsLog, globalsInit, compiler_runtime,
                 java_runtime, in_shutdown, rt_shutdowns, shutdown_calls, shared_library_handle,
                 shared_library_path, dll_loads, vm_fatal, frame, gsl_ret, nCalls>>

\* Line 206: the MutexLocker goes out of scope.
shutdown_unlock(t) ==
  /\ ~vm_fatal
  /\ pc[t] = "sd_206"
  /\ JVMCI_lock' = NoThread
  /\ pc' = [pc EXCEPT ![t] = "sd_207"]
  /\ UNCHANGED <<varsCounters, varsFatal, varsFlags, varsLog, globalsInit, compiler_runtime,
                 java_runtime, in_shutdown, rt_shutdowns, shutdown_calls, shared_library_handle,
                 shared_library_path, dll_loads, vm_fatal, frame, gsl_ret, nCalls>>

\* rt_shutdowns after thread t calls r->shutdown().
runtime_shutdown(t, r) == [rt_shutdowns EXCEPT ![t][r] = @ + 1]

\* A shutdown that shuts the java runtime down without comparing it with the
\* compiler runtime.
shutdown_java_runtime_always(t) ==
  /\ ~vm_fatal
  /\ pc[t] = "sd_207"
  /\ rt_shutdowns' = runtime_shutdown(t, java_runtime)
  /\ pc' = [pc EXCEPT ![t] = "sd_211"]
  /\ UNCHANGED <<varsCounters, varsFatal, varsFlags, varsLog, globalsInit, compiler_runtime,
                 java_runtime, in_shutdown, shutdown_calls, JVMCI_lock, shared_library_handle,
                 shared_library_path, dll_loads, vm_fatal, frame, gsl_ret, nCalls>>

\* Lines 207-210: the java runtime is shut down unless it is the compiler runtime.
shutdown_java_runtime(t) ==
  /\ ~vm_fatal
  /\ pc[t] = "sd_207"
  /\ rt_shutdowns' = IF java_runtime # compiler_runtime
                     THEN runtime_shutdown(t, java_runtime)
                     ELSE rt_shutdowns
  /\ pc' = [pc EXCEPT ![t] = "sd_211"]
  /\ UNCHANGED <<varsCounters, varsFatal, varsFlags, varsLog, globalsInit, compiler_runtime,
                 java_runtime, in_shutdown, shutdown_calls, JVMCI_lock, shared_library_handle,
                 shared_library_path, dll_loads, vm_fatal, frame, gsl_ret, nCalls>>

\* Lines 211-213: the compiler runtime is shut down when there is one.
shutdown_compiler_runtime(t) ==
  /\ ~vm_fatal
  /\ pc[t] = "sd_211"
  /\ rt_shutdowns' = IF compiler_runtime # NoRuntime
                     THEN runtime_shutdown(t, compiler_runtime)
                     ELSE rt_shutdowns
  /\ pc' = [pc EXCEPT ![t] = "idle"]
  /\ UNCHANGED <<varsCounters, varsFatal, varsFlags, varsLog, globalsInit, compiler_runtime,
                 java_runtime, in_shutdown, shutdown_calls, JVMCI_lock, shared_library_handle,
                 shared_library_path, dll_loads, vm_fatal, frame, gsl_ret, nCalls>>

\* ------------------------------------------------------------------ crash logger
\* A thread enters JVMCI::fatal_log(buf, count); os::current_thread_id() is t.
fatal_log_call(t) ==
  /\ fpc[t] = "idle"
  /\ nFatal[t] < MaxFatalCalls
  /\ nFatal' = [nFatal EXCEPT ![t] = @ + 1]
  /\ fpc' = [fpc EXCEPT ![t] = "fl_224"]
  /\ UNCHANGED <<varsCounters, varsFlags, varsLog, varsLife, varsLib, ErrorFileToStdout,
                 ErrorFileToStderr, fatal_log_init_thread, fatal_log_fd,
                 fatal_log_filename, log_fd, writes, resolvers>>

\* Line 224, first operand: _fatal_log_init_thread == invalid_id
fl_check(t) ==
  /\ fpc[t] = "fl_224"
  /\ fpc' = [fpc EXCEPT ![t] = IF fatal_log_init_thread = invalid_id
                               THEN "fl_cmpxchg" ELSE "fl_250"]
  /\ UNCHANGED <<varsCounters, varsFlags, varsLog, varsLife, varsLib, ErrorFileToStdout,
                 ErrorFileToStderr, fatal_log_init_thread, fatal_log_fd,
                 fatal_log_filename, log_fd, writes, resolvers, nFatal>>

\* An election by a plain store in place of the compare-and-exchange.
fl_plain_store(t) ==
  /\ fpc[t] = "fl_cmpxchg"
  /\ fatal_log_init_thread' = t
  /\ fpc' = [fpc EXCEPT ![t] = "fl_225"]
  /\ UNCHANGED <<varsCounters, varsFlags, varsLog, varsLife, varsLib, ErrorFileToStdout,
                 ErrorFileToStderr, fatal_log_fd, fatal_log_filename, log_fd, writes,
                 resolvers, nFatal>>

\* Line 224, second operand:
\* Atomic::cmpxchg(&_fatal_log_init_thread, invalid_id, current_thread_id) == invalid_id
fl_cmpxchg(t) ==
  /\ fpc[t] = "fl_cmpxchg"
  /\ IF fatal_log_init_thread = invalid_id
     THEN /\ fatal_log_init_thread' = t
          /\ fpc' = [fpc EXCEPT ![t] = "fl_225"]
     ELSE /\ fatal_log_init_thread' = fatal_log_init_thread
          /\ fpc' = [fpc EXCEPT ![t] = "fl_250"]
  /\ UNCHANGED <<varsCounters, varsFlags, varsLog, varsLife, varsLib, ErrorFileToStdout,
                 ErrorFileToStderr, fatal_log_fd, fatal_log_filename, log_fd, writes,
                 resolvers, nFatal>>

\* A resolution that looks at ErrorFileToStderr before ErrorFileToStdout.
fl_resolve_stderr_first(t, fd) ==
  /\ fpc[t] = "fl_225"
  /\ IF ErrorFileToStderr
     THEN /\ fd = NoFd
          /\ log_fd' = [log_fd EXCEPT ![t] = 2]
          /\ UNCHANGED <<fatal_log_filename, tty>>
     ELSE IF ErrorFileToStdout
     THEN /\ fd = NoFd
          /\ log_fd' = [log_fd EXCEPT ![t] = 1]
          /\ UNCHANGED <<fatal_log_filename, tty>>
     ELSE IF fd # NoFd
     THEN /\ log_fd' = [log_fd EXCEPT ![t] = fd]
          /\ fatal_log_filename' = "name_buffer"
          /\ tty' = tty
     ELSE /\ log_fd' = [log_fd EXCEPT ![t] = 1]
          /\ fatal_log_filename' = fatal_log_filename
          /\ tty' = Append(tty, [level |-> 0, name |-> <<"fatal_log">>,
                                 msg |-> <<"Can't open JVMCI shared library error report file", 0>>])
  /\ resolvers' = Append(resolvers, t)
  /\ fpc' = [fpc EXCEPT ![t] = "fl_244"]
  /\ UNCHANGED <<varsCounters, varsFlags, events, verbose_events, nEvents, varsLife,
                 varsLib, ErrorFileToStdout, ErrorFileToStderr, fatal_log_init_thread,
                 fatal_log_fd, writes, nFatal>>

\* Lines 225-243: the winner resolves the descriptor; fd is what
\* VMError::prepare_log_file returns when it is called.
fl_resolve(t, fd) ==
  /\ fpc[t] = "fl_225"
  /\ IF ErrorFileToStdout
     THEN /\ fd = NoFd
          /\ log_fd' = [log_fd EXCEPT ![t] = 1]
          /\ UNCHANGED <<fatal_log_filename, tty>>
     ELSE IF ErrorFileToStderr
     THEN /\ fd = NoFd
          /\ log_fd' = [log_fd EXCEPT ![t] = 2]
          /\ UNCHANGED <<fatal_log_filename, tty>>
     ELSE IF fd # NoFd
     THEN /\ log_fd' = [log_fd EXCEPT ![t] = fd]
          /\ fatal_log_filename' = "name_buffer"
          /\ tty' = tty
     ELSE /\ log_fd' = [log_fd EXCEPT ![t] = 1]
          /\ fatal_log_filename' = fatal_log_filename
          /\ tty' = Append(tty, [level |-> 0, name |-> <<"fatal_log">>,
                                 msg |-> <<"Can't open JVMCI shared library error report file", 0>>])
  /\ resolvers' = Append(resolvers, t)
  /\ fpc' = [fpc EXCEPT ![t] = "fl_244"]
  /\ UNCHANGED <<varsCounters, varsFlags, events, verbose_events, nEvents, varsLife,
                 varsLib, ErrorFileToStdout, ErrorFileToStderr, fatal_log_init_thread,
                 fatal_log_fd, writes, nFatal>>

\* A winner that goes on to write without publishing the descriptor.
fl_no_publish(t) ==
  /\ fpc[t] = "fl_244"
  /\ fatal_log_fd' = fatal_log_fd
  /\ fpc' = [fpc EXCEPT ![t] = "fl_254"]
  /\ UNCHANGED <<varsCounters, varsFlags, varsLog, varsLife, varsLib, ErrorFileToStdout,
                 ErrorFileToStderr, fatal_log_init_thread, fatal_log_filename, log_fd,
                 writes, resolvers, nFatal>>

\* Line 244: _fatal_log_fd = log_fd
fl_publish(t) ==
  /\ fpc[t] = "fl_244"
  /\ fatal_log_fd' = log_fd[t]
  /\ fpc' = [fpc EXCEPT ![t] = "fl_254"]
  /\ UNCHANGED <<varsCounters, varsFlags, varsLog, varsLife, varsLib, ErrorFileToStdout,
                 ErrorFileToStderr, fatal_log_init_thread, fatal_log_filename, log_fd,
                 writes, resolvers, nFatal>>

\* A follower that does not wait for the descriptor.
fl_no_spin(t) ==
  /\ fpc[t] = "fl_250"
  /\ fpc' = [fpc EXCEPT ![t] = "fl_254"]
  /\ UNCHANGED <<varsCounters, varsFlags, varsLog, varsLife, varsLib, ErrorFileToStdout,
                 ErrorFileToStderr, fatal_log_init_thread, fatal_log_fd,
                 fatal_log_filename, log_fd, writes, resolvers, nFatal>>

\* Lines 250-252: the loop ends when _fatal_log_fd is no longer -1 (an
\* iteration that sleeps changes nothing).
fl_spin(t) ==
  /\ fpc[t] = "fl_250"
  /\ fatal_log_fd # NoFd
  /\ fpc' = [fpc EXCEPT ![t] = "fl_254"]
  /\ UNCHANGED <<varsCounters, varsFlags, varsLog, varsLife, varsLib, ErrorFileToStdout,
                 ErrorFileToStderr, fatal_log_init_thread, fatal_log_fd,
                 fatal_log_filename, log_fd, writes, resolvers, nFatal>>

\* Lines 254-256: fdStream log(_fatal_log_fd); log.write(buf, count); log.flush()
fl_write(t) ==
  /\ fpc[t] = "fl_254"
  /\ writes' = Append(writes, [thread |-> t, fd |-> fatal_log_fd])
  /\ fpc' = [fpc EXCEPT ![t] = "idle"]
  /\ UNCHANGED <<varsCounters, varsFlags, varsLog, varsLife, varsLib, ErrorFileToStdout,
                 ErrorFileToStderr, fatal_log_init_thread, fatal_log_fd,
                 fatal_log_filename, log_fd, resolvers, nFatal>>

\* A step of thread t inside fatal_log.
fatal_log_step(t) ==
  \/ fl_check(t)
  \/ fl_cmpxchg(t)
  \/ \E fd \in OpenFds \cup {NoFd} : fl_resolve(t, fd)
  \/ fl_publish(t)
  \/ fl_spin(t)
  \/ fl_write(t)

\* ------------------------------------------------------------------ claims
\* The blocks a resize or a collect visits: the threads on the ThreadsList.
ListedThreads == SeqToSet(threadsList)

\* The orders in which the listed threads can be visited.
VisitOrders ==
  {p \in [1..Len(threadsList) -> ListedThreads] :
     \A i, j \in 1..Len(threadsList) : i # j => p[i] # p[j]}

\* Block new holds what block old held at index i (an index past the end of old
\* held no value).
HeldBefore(old, new, i) ==
  i <= Len(old.a) /\ i <= Len(new.a) /\ new.a[i] = old.a[i]

\* Block new is block old resized from size s to size n.
ResizedFrom(old, new, s, n) ==
  /\ ~new.null
  /\ Len(new.a) = n
  /\ \A i \in 1..n : IF i <= MIN2(s, n) THEN HeldBefore(old, new, i) ELSE new.a[i] = 0

\* C1: resize_all_jvmci_counters(new_size) is all-or-nothing: it returns true
\* with the retired pool and every live thread's block of length new_size and
\* their low-index values preserved, or it returns false with the retired pool,
\* every live thread's block and JVMCICounterSize exactly as before the call.
C1_AllOrNothing ==
  [][lastOp'.op = "resize" =>
       IF lastOp'.ret
       THEN /\ Len(jvmci_old_thread_counters'.a) = lastOp'.new_size
            /\ \A i \in 1..MIN2(Len(jvmci_old_thread_counters.a), lastOp'.new_size) :
                 HeldBefore(jvmci_old_thread_counters, jvmci_old_thread_counters', i)
            /\ \A t \in ListedThreads :
                 /\ Len(jvmci_counters'[t].a) = lastOp'.new_size
                 /\ \A i \in 1..MIN2(Len(jvmci_counters[t].a), lastOp'.new_size) :
                      HeldBefore(jvmci_counters[t], jvmci_counters'[t], i)
       ELSE /\ jvmci_old_thread_counters' = jvmci_old_thread_counters
            /\ \A t \in ListedThreads : jvmci_counters'[t] = jvmci_counters[t]
            /\ JVMCICounterSize' = JVMCICounterSize]_vars

\* C2: outside a resize in progress, once init_counters has run, the retired
\* pool and every live thread's block have length JVMCICounterSize, and no
\* operation has indexed past the end of an array.
C2_LengthsEqualSize ==
  countersInit =>
    /\ Len(jvmci_old_thread_counters.a) = JVMCICounterSize
    /\ \A t \in ListedThreads : Len(jvmci_counters[t].a) = JVMCICounterSize
    /\ ~oob

\* C3: when every allocation succeeds, resize_all_jvmci_counters(new_size)
\* leaves the retired pool and each live thread's block with length new_size,
\* every index below min(old size, new_size) holding the value it held before
\* and every index from the old size on holding 0, and JVMCICounterSize
\* becomes new_size.
C3_ResizePreserves ==
  [][lastOp'.op = "resize" /\ lastOp'.ret =>
       /\ ResizedFrom(jvmci_old_thread_counters, jvmci_old_thread_counters',
                      JVMCICounterSize, lastOp'.new_size)
       /\ \A t \in ListedThreads :
            ResizedFrom(jvmci_counters[t], jvmci_counters'[t],
                        JVMCICounterSize, lastOp'.new_size)
       /\ JVMCICounterSize' = lastOp'.new_size]_vars

\* The sum of the counters at index i of the included threads of S; no sum when
\* some block has no index i.
RECURSIVE SumAt(_, _)
SumAt(S, i) ==
  IF S = {} THEN 0
  ELSE LET t == CHOOSE x \in S : TRUE
       IN  (IF jvmci_counters_include(t) THEN jvmci_counters[t].a[i] ELSE 0)
           + SumAt(S \ {t}, i)

HasIndex(p, i) == ~p.null /\ i <= Len(p.a)

\* No listed thread is in its exit sequence.
NoThreadExiting == \A t \in ListedThreads : tstate[t] = "live"

\* C4: with no thread exiting, collect_counters(array, JVMCICounterSize) sets
\* array[i] to the retired pool's value at i plus the sum of the live included
\* threads' counters at i, whatever the order the threads are visited in, and
\* changes neither the retired pool nor any thread's block.
C4_CollectSums ==
  [][lastOp'.op = "collect" /\ NoThreadExiting' =>
       /\ Len(array') = JVMCICounterSize
       /\ \A i \in 1..JVMCICounterSize :
            /\ HasIndex(jvmci_old_thread_counters, i)
            /\ \A t \in ListedThreads :
                 jvmci_counters_include(t) => HasIndex(jvmci_counters[t], i)
            /\ array'[i] = jvmci_old_thread_counters.a[i] + SumAt(ListedThreads, i)
       /\ \A p \in VisitOrders, g \in Garbage :
            collect_over(p, JVMCICounterSize, g) = array'
       /\ jvmci_old_thread_counters' = jvmci_old_thread_counters
       /\ jvmci_counters' = jvmci_counters]_vars

\* ---- library loader
\* The calls with load = true that have returned.
LoadReturns == {t \in Threads : gsl_ret[t].returned /\ gsl_ret[t].load}

\* C5: under any interleaving of get_shared_library(load = true) calls made
\* holding JVMCI_lock with lock-free fast-path calls, os::dll_load is executed
\* at most once, _shared_library_handle changes only from NULL to the loaded
\* handle and never again, and every call with load = true returns that same
\* non-null handle and the same resolved path.
C5_LoadOnce ==
  /\ [](dll_loads <= 1)
  /\ [][shared_library_handle' # shared_library_handle =>
          /\ shared_library_handle = NoHandle
          /\ dll_loads = 1
          /\ shared_library_handle' = dll_loads]_vars
  /\ [](\A t \in LoadReturns :
          /\ gsl_ret[t].handle # NoHandle
          /\ gsl_ret[t].handle = shared_library_handle
          /\ gsl_ret[t].path # NoPath
          /\ gsl_ret[t].path = dll_locate_lib
          /\ \A u \in LoadReturns : gsl_ret[u] = gsl_ret[t])

\* Every thread has returned from a call with load = true after one load, and
\* one of them came back on the fast path while it held the lock.
C5_Witness ==
  /\ dll_loads = 1
  /\ LoadReturns = Threads
  /\ \E t \in Threads : frame[t].load /\ frame[t].sl_handle # NoHandle

\* ---- event log
\* Buffer new is buffer old with entry e recorded after the entries it held,
\* the oldest one evicted when old was full.
RecordedOne(old, new, e) ==
  /\ new.count = old.count /\ ~new.null
  /\ IF Len(old.entries) < old.count
     THEN new.entries = Append(old.entries, e)
     ELSE new.entries = Append(Tail(old.entries), e)

EventLevels == 1..max_EventLog_level
Callers == Threads \cup {NoThread}

\* The console trace line is emitted if and only if level <= JVMCITraceLevel.
TracedIffWithinTraceLevel(level, thread) ==
  IF level <= JVMCITraceLevel
  THEN Len(tty') = Len(tty) + 1 /\ tty'[Len(tty')].level = level
       /\ SubSeq(tty', 1, Len(tty)) = tty
  ELSE tty' = tty

\* C9 as stated: for every event call at level L with logging enabled and
\* verbosity V, no entry is recorded if L > V and exactly one is recorded if
\* L <= V (level-1 buffer for L = 1, verbose buffer for L >= 2, in submission
\* order); the trace line is emitted if and only if L <= JVMCITraceLevel.
C9_Original ==
  [][\A level \in EventLevels, thread \in Callers :
       event(level, thread) /\ LogEvents =>
         /\ IF level > JVMCIEventLogLevel
            THEN events' = events /\ verbose_events' = verbose_events
            ELSE \E tag \in Callers :
                   LET e == [thread |-> tag, msg |-> <<"event", nEvents'>>]
                   IN  IF level = 1
                       THEN RecordedOne(events, events', e)
                            /\ verbose_events' = verbose_events
                       ELSE RecordedOne(verbose_events, verbose_events', e)
                            /\ events' = events
         /\ TracedIffWithinTraceLevel(level, thread)]_vars

\* C9 amended: for every event call at level L with logging enabled and
\* verbosity V: a call with L <= V made before initialize_globals has created
\* the buffers ends the process in guarantee(events != NULL), recording and
\* tracing nothing; otherwise no entry is recorded if L > V or the calling
\* thread is not attached (Thread::current_or_null_safe() is NULL), and exactly
\* one is recorded, tagged with the thread, if L <= V and the thread is
\* attached (level-1 buffer for L = 1, verbose buffer for L >= 2, in submission
\* order, the oldest entry evicted from a full buffer), and the trace line is
\* emitted if and only if L <= JVMCITraceLevel, whether or not an entry was
\* recorded and whether or not the thread is attached.
C9_Amended ==
  [][\A level \in EventLevels, thread \in Callers :
       event(level, thread) /\ LogEvents =>
         IF level <= JVMCIEventLogLevel /\ ~globalsInit
         THEN /\ vm_fatal'
              /\ events' = events /\ verbose_events' = verbose_events /\ tty' = tty
         ELSE /\ IF level > JVMCIEventLogLevel \/ thread = NoThread
                 THEN events' = events /\ verbose_events' = verbose_events
                 ELSE LET e == [thread |-> thread, msg |-> <<"event", nEvents'>>]
                      IN  IF level = 1
                          THEN RecordedOne(events, events', e)
                               /\ verbose_events' = verbose_events
                          ELSE RecordedOne(verbose_events, verbose_events', e)
                               /\ events' = events
              /\ TracedIffWithinTraceLevel(level, thread)
              /\ ~vm_fatal']_vars

\* With verbosity 1 and a level-1 buffer of one entry: an attached thread's
\* level-1 event was recorded and traced, a level-1 event of a thread that is
\* not attached was traced and not recorded, and a second recorded level-1
\* event has evicted the first.
C9_Witness ==
  /\ LogEvents /\ JVMCIEventLogLevel = 1 /\ events.count = 1
  /\ nEvents = 3
  /\ Len(events.entries) = 1 /\ events.entries[1].thread \in Threads
  /\ events.entries[1].msg = <<"event", 3>>
  /\ Len(tty) = 3 /\ tty[1].name # <<"?">> /\ tty[2].name = <<"?">>
  /\ \A i \in 1..3 : tty[i].level = 1

\* ---- shutdown
\* C10: _in_shutdown starts false, shutdown() sets it while holding JVMCI_lock,
\* it never becomes false again, and shutdown() has released JVMCI_lock and
\* the flag is already true when it invokes shutdown on a runtime instance.
C10_ShutdownFlag ==
  /\ ~in_shutdown
  /\ [][in_shutdown => in_shutdown']_vars
  /\ [][~in_shutdown /\ in_shutdown' =>
          \E t \in Threads :
            pc[t] = "sd_204" /\ pc'[t] = "sd_205" /\ JVMCI_lock = t /\ JVMCI_lock' = t]_vars
  /\ [][\A t \in Threads :
          rt_shutdowns'[t] # rt_shutdowns[t] =>
            in_shutdown /\ JVMCI_lock # t /\ pc[t] \in {"sd_207", "sd_211"}]_vars

\* A thread has shut a runtime down while another thread holds JVMCI_lock.
C10_Witness ==
  /\ in_shutdown
  /\ \E t \in Threads, r \in Runtimes :
       rt_shutdowns[t][r] > 0 /\ JVMCI_lock \notin {t, NoThread}

\* ---- crash logger
\* The threads that have written a buffer.
Writers == {writes[i].thread : i \in 1..Len(writes)}

\* C6: under any number of threads making their first call to fatal_log,
\* exactly one wins the compare-and-exchange and runs the target resolution;
\* _fatal_log_init_thread changes once, from -1 to the winner's id, and
\* _fatal_log_fd is assigned once, from -1 to the resolved descriptor, and no
\* later caller reassigns it.
C6_ElectionExclusive ==
  /\ [](Len(resolvers) <= 1)
  /\ [](\A t \in Threads :
          fpc[t] \in {"fl_225", "fl_244", "fl_250", "fl_254"} \/ t \in Writers =>
            /\ fatal_log_init_thread \in Threads
            /\ fpc[t] \in {"fl_225", "fl_244"} => fatal_log_init_thread = t)
  /\ [](resolvers # <<>> => resolvers[1] = fatal_log_init_thread)
  /\ [][fatal_log_init_thread' # fatal_log_init_thread =>
          /\ fatal_log_init_thread = invalid_id
          /\ fatal_log_init_thread' \in Threads
          /\ fpc[fatal_log_init_thread'] = "fl_cmpxchg"]_vars
  /\ [][fatal_log_fd' # fatal_log_fd =>
          /\ fatal_log_fd = NoFd
          /\ fatal_log_fd' # NoFd
          /\ fatal_log_fd' = log_fd[fatal_log_init_thread]
          /\ fpc[fatal_log_init_thread] = "fl_244"]_vars

\* Every thread raced for the election in its first call, one won, and every
\* thread has written, some of them in a later call.
C6_Witness ==
  /\ Len(resolvers) = 1
  /\ Writers = Threads
  /\ \A t \in Threads : nFatal[t] = MaxFatalCalls /\ fpc[t] = "idle"

\* C7: no caller of fatal_log writes its buffer while _fatal_log_fd is still
\* -1, and all callers write to the same descriptor.
C7_WriteAfterPublish ==
  /\ \A i \in 1..Len(writes) : writes[i].fd # NoFd /\ writes[i].fd = fatal_log_fd
  /\ \A t \in Threads : fpc[t] = "fl_254" => fatal_log_fd # NoFd

\* The winner and a follower that lost the compare-and-exchange have both
\* written.
C7_Witness ==
  /\ Len(writes) >= 2
  /\ writes[1].thread # writes[2].thread
  /\ fatal_log_init_thread \in {writes[1].thread, writes[2].thread}

\* The number of buffers thread t has written.
RECURSIVE WritesBy(_, _)
WritesBy(t, k) ==
  IF k = 0 THEN 0
  ELSE (IF writes[k].thread = t THEN 1 ELSE 0) + WritesBy(t, k - 1)

\* C8: under weak fairness of every thread's steps, every thread that calls
\* fatal_log eventually writes its buffer, and inside fatal_log a thread is
\* held up by nothing but the spin on _fatal_log_fd == -1.
C8_EveryCallerWrites ==
  /\ \A t \in Threads, k \in 1..MaxFatalCalls :
       (nFatal[t] >= k) ~> (WritesBy(t, Len(writes)) >= k)
  /\ [](\A t \in Threads :
          fpc[t] # "idle" /\ ~(fpc[t] = "fl_250" /\ fatal_log_fd = NoFd) =>
            ENABLED fatal_log_step(t))

\* A follower waited in the spin loop while the winner had not published, and
\* has written since.
C8_Witness ==
  /\ fatal_log_fd # NoFd
  /\ \E t \in Threads :
       /\ t # fatal_log_init_thread
       /\ WritesBy(t, Len(writes)) = MaxFatalCalls
       /\ writes[1].thread = fatal_log_init_thread

\* ---- shutdown of the runtimes
\* The distinct runtime instances initialize_globals created.
Instances == {java_runtime, compiler_runtime} \ {NoRuntime}

\* C11: after initialize_globals, each call to shutdown() invokes shutdown
\* exactly once on each distinct runtime instance: the shared instance once
\* (not twice) in single-runtime mode, the java and the compiler instance once
\* each in native-library mode.
C11_ShutdownOncePerInstance ==
  /\ globalsInit =>
       /\ Cardinality(Instances) = IF UseJVMCINativeLibrary THEN 2 ELSE 1
       /\ ~UseJVMCINativeLibrary => java_runtime = compiler_runtime
  /\ \A t \in Threads :
       pc[t] \notin {"sd_204", "sd_205", "sd_206", "sd_207", "sd_211"} =>
         \A r \in Runtimes :
           rt_shutdowns[t][r] = IF r \in Instances THEN shutdown_calls[t] ELSE 0

\* In single-runtime mode a thread has completed shutdown() twice and another
\* once.
C11_Witness ==
  /\ globalsInit /\ ~UseJVMCINativeLibrary
  /\ \A t \in Threads : pc[t] = "idle"
  /\ \E t, u \in Threads :
       /\ shutdown_calls[t] = 2 /\ shutdown_calls[u] = 1
       /\ rt_shutdowns[t][compiler_runtime] = 2

\* ---- load failure
\* C12: on the slow path of get_shared_library(load = true), a failure of
\* os::dll_locate_lib or of os::dll_load puts the process in the fatal state
\* with _shared_library_handle and _shared_library_path still NULL, and a
\* failed load never returns to the caller: the slow path goes on from the load
\* only with a non-null handle and path, the fatal state is final, and every
\* call with load = true that returned brought a non-null handle.
C12_LoadFailureIsFatal ==
  /\ [](vm_fatal =>
         /\ shared_library_handle = NoHandle /\ shared_library_path = NoPath
         /\ \E t \in Threads : pc[t] = "gsl_81" /\ frame[t].load /\ JVMCI_lock = t)
  /\ [][~vm_fatal]_vars
  /\ [][\A t \in Threads :
          pc[t] = "gsl_81" =>
            \/ /\ pc'[t] = "gsl_94" /\ ~vm_fatal' /\ dll_loads' = dll_loads + 1
               /\ frame'[t].handle # NoHandle /\ frame'[t].path # NoPath
            \/ /\ pc'[t] = "gsl_81" /\ gsl_ret'[t] = gsl_ret[t]
               /\ shared_library_handle' = NoHandle /\ shared_library_path' = NoPath]_vars
  /\ [](\A t \in LoadReturns : gsl_ret[t].handle # NoHandle /\ gsl_ret[t].path # NoPath)

\* os::dll_load has failed in a thread's call with load = true: the process is
\* in the fatal state and that call has not returned.
C12_Witness ==
  /\ vm_fatal /\ dll_loads = 1
  /\ \E t \in Threads : pc[t] = "gsl_81" /\ ~gsl_ret[t].returned

\* ---- crash-log target
\* The console lines that report a failed creation of the crash-log file.
OpenFailures == {i \in 1..Len(tty) : tty[i].name = <<"fatal_log">>}

\* C13: the winner of the election resolves the descriptor in strict priority
\* order: 1 if ErrorFileToStdout is set, whatever the other options; else 2 if
\* ErrorFileToStderr is set; else the descriptor of the crash-log file it
\* created, with _fatal_log_filename set; and if the file cannot be created
\* the descriptor is 1, _fatal_log_filename stays unset, the failure is
\* reported on the console once, and the call writes its buffer all the same.
C13_TargetPriority ==
  /\ [][\A t \in Threads :
          fpc[t] = "fl_225" /\ fpc'[t] # "fl_225" =>
            /\ fpc'[t] = "fl_244"
            /\ IF ErrorFileToStdout
               THEN log_fd'[t] = 1 /\ UNCHANGED <<fatal_log_filename, tty>>
               ELSE IF ErrorFileToStderr
               THEN log_fd'[t] = 2 /\ UNCHANGED <<fatal_log_filename, tty>>
               ELSE \/ /\ log_fd'[t] \in OpenFds
                       /\ fatal_log_filename' = "name_buffer" /\ tty' = tty
                    \/ /\ log_fd'[t] = 1
                       /\ fatal_log_filename' = "NULL"
                       /\ Len(tty') = Len(tty) + 1]_vars
  /\ [](fatal_log_fd # NoFd =>
         /\ fatal_log_fd = log_fd[fatal_log_init_thread]
         /\ ErrorFileToStdout => fatal_log_fd = 1
         /\ ~ErrorFileToStdout /\ ErrorFileToStderr => fatal_log_fd = 2
         /\ ErrorFileToStdout \/ ErrorFileToStderr =>
              fatal_log_filename = "NULL" /\ OpenFailures = {}
         /\ ~ErrorFileToStdout /\ ~ErrorFileToStderr =>
              \/ /\ fatal_log_fd \in OpenFds
                 /\ fatal_log_filename = "name_buffer" /\ OpenFailures = {}
              \/ /\ fatal_log_fd = 1
                 /\ fatal_log_filename = "NULL" /\ Cardinality(OpenFailures) = 1)
  /\ [](\A t \in Threads : fpc[t] = "idle" => WritesBy(t, Len(writes)) = nFatal[t])

\* The crash-log file could not be created: the winner wrote its buffer to
\* descriptor 1 and the file name is unset.
C13_Witness ==
  /\ ~ErrorFileToStdout /\ ~ErrorFileToStderr
  /\ fatal_log_fd = 1 /\ fatal_log_filename = "NULL"
  /\ Cardinality(OpenFailures) = 1
  /\ writes # <<>> /\ writes[1] = [thread |-> fatal_log_init_thread, fd |-> 1]

\* ---- events of threads that are not attached
\* An event call at level by a thread for which Thread::current_or_null_safe()
\* is NULL, made after initialize_globals with logging enabled and the level
\* within both the log verbosity and the trace verbosity.
UnattachedEvent(level) ==
  /\ event(level, NoThread)
  /\ globalsInit /\ LogEvents
  /\ level <= JVMCIEventLogLevel /\ level <= JVMCITraceLevel

\* The console prints one more line, tagged with the placeholder "?".
TracedWithPlaceholder(level) ==
  tty' = Append(tty, [level |-> level, name |-> <<"?">>, msg |-> <<"event", nEvents'>>])

\* C14 as stated: for an event call by a thread with no resolvable identity
\* whose level is within the log verbosity and the trace verbosity, the
\* structured log records one entry tagged with a placeholder and the console
\* trace prints one line tagged with a placeholder.
C14_Original ==
  [][\A level \in EventLevels :
       UnattachedEvent(level) =>
         /\ LET e == [thread |-> NoThread, msg |-> <<"event", nEvents'>>]
            IN  IF level = 1
                THEN RecordedOne(events, events', e) /\ verbose_events' = verbose_events
                ELSE RecordedOne(verbose_events, verbose_events', e) /\ events' = events
         /\ TracedWithPlaceholder(level)]_vars

\* C14 amended: for an event call made after initialize_globals by a thread
\* with no resolvable identity whose level is within the log verbosity and the
\* trace verbosity, the console trace prints one line tagged with the
\* placeholder "?", and the structured log records no entry: both buffers are
\* left as they were.
C14_Amended ==
  [][\A level \in EventLevels :
       UnattachedEvent(level) =>
         /\ events' = events /\ verbose_events' = verbose_events
         /\ TracedWithPlaceholder(level)
         /\ ~vm_fatal']_vars

\* With verbosity and trace level 2, a level-2 event of a thread that is not
\* attached was traced with the placeholder and left the verbose buffer empty.
C14_Witness ==
  /\ globalsInit /\ LogEvents /\ JVMCIEventLogLevel = 2 /\ JVMCITraceLevel = 2
  /\ nEvents = 1
  /\ tty = <<[level |-> 2, name |-> <<"?">>, msg |-> <<"event", 1>>]>>
  /\ ~verbose_events.null /\ verbose_events.entries = <<>>
  /\ events.entries = <<>>

\* ---- retirement of a thread's counters
\* The step in which thread t's counters are folded, and the step in which its
\* block is released.
FoldStep(t) == tstate[t] = "live" /\ tstate'[t] = "folded"
FreeStep(t) == tstate[t] # "freed" /\ tstate'[t] = "freed"

\* C15: an exiting thread's counters are folded elementwise into the retired
\* pool before free_counters(thread) releases its block, which leaves the pool
\* as it is, so that a collect_counters after the threads have been freed
\* returns the pool with every included thread's counters in it; and while
\* JVMCICounterSize is 0 free_counters(thread) and free_counters() release
\* nothing and change nothing.
C15_FoldThenFree ==
  [][/\ \A t \in Threads :
          /\ FoldStep(t) /\ JVMCICounterSize > 0 /\ jvmci_counters_include(t) =>
               \A i \in 1..JVMCICounterSize :
                 /\ HasIndex(jvmci_old_thread_counters, i)
                 /\ HasIndex(jvmci_counters[t], i)
                 /\ HasIndex(jvmci_old_thread_counters', i)
                 /\ jvmci_old_thread_counters'.a[i] =
                      jvmci_old_thread_counters.a[i] + jvmci_counters[t].a[i]
          /\ FreeStep(t) =>
               /\ tstate[t] \in {"folded", "removed"}
               /\ jvmci_old_thread_counters' = jvmci_old_thread_counters
               /\ freed' = IF JVMCICounterSize > 0 THEN freed \cup {t} ELSE freed
     /\ lastOp'.op = "free_counters" =>
          /\ pool_freed' = (JVMCICounterSize > 0)
          /\ UNCHANGED <<jvmci_old_thread_counters, jvmci_counters, freed, JVMCICounterSize>>
     /\ lastOp'.op = "collect" /\ ListedThreads = {} =>
          /\ Len(array') = JVMCICounterSize
          /\ \A i \in 1..JVMCICounterSize :
               HasIndex(jvmci_old_thread_counters, i)
               /\ array'[i] = jvmci_old_thread_counters.a[i]]_vars

\* ---- collection while a thread exits
\* The listed threads whose counters have not been folded into the retired pool.
Unfolded == {t \in ListedThreads : tstate[t] = "live"}

\* Every array a collect reads has the JVMCICounterSize indices it reads.
CollectInBounds ==
  /\ Len(jvmci_old_thread_counters.a) = JVMCICounterSize
  /\ \A t \in ListedThreads : Len(jvmci_counters[t].a) = JVMCICounterSize

\* C16: for every interleaving of a thread's exit sequence (accumulate_counters,
\* then free_counters and the removal from the ThreadsList) with a
\* collect_counters of another thread, the collected value at each index counts
\* each increment of the exiting thread at most once: it is the retired pool's
\* value plus the counters of the included threads that are not yet folded
\* into the pool, and never adds a thread's counters through the pool and
\* through its still listed block.
C16_NoDoubleCount ==
  [][lastOp'.op = "collect" /\ CollectInBounds =>
       \A i \in 1..JVMCICounterSize :
         array'[i] = jvmci_old_thread_counters.a[i] + SumAt(Unfolded, i)]_vars

\* ---- sizing of the event buffers
RECURSIVE Pow10(_)
Pow10(n) == IF n = 0 THEN 1 ELSE 10 * Pow10(n - 1)

\* C17: with logging enabled, verbosity L >= 2 and base capacity B,
\* initialize_globals creates the verbose buffer with capacity
\* B * 10^(min(L, max_EventLog_level) - 1); with L = 1 only the level-1 buffer
\* is created; with L = 0 or logging disabled neither buffer is created.
C17_VerboseCapacity ==
  IF ~globalsInit \/ ~LogEvents \/ JVMCIEventLogLevel = 0
  THEN events.null /\ verbose_events.null
  ELSE IF JVMCIEventLogLevel = 1
  THEN ~events.null /\ verbose_events.null
  ELSE /\ ~events.null /\ ~verbose_events.null
       /\ verbose_events.count =
            LogEventsBufferEntries
              * Pow10(MIN2(JVMCIEventLogLevel, max_EventLog_level) - 1)

\* The verbosity is above the maximum level and the base capacity is 2: the
\* verbose buffer was created with capacity 2000.
C17_Witness ==
  /\ globalsInit /\ LogEvents
  /\ JVMCIEventLogLevel > max_EventLog_level
  /\ LogEventsBufferEntries = 2
  /\ ~verbose_events.null /\ verbose_events.count = 2000

\* ---- handle and path seen by a fast-path caller
\* C18: every call to get_shared_library that returns a non-null handle also
\* returns the non-null resolved path of that handle: no fast-path caller
\* returns the installed handle with a path that is still NULL.
C18_HandleImpliesPath ==
  \A t \in Threads :
    gsl_ret[t].returned /\ gsl_ret[t].handle # NoHandle =>
      gsl_ret[t].path # NoPath /\ gsl_ret[t].path = dll_locate_lib

\* ---- the guarantee of vlog
\* C19: once initialize_globals has completed, no vlog call with a level in
\* 1..4 from an attached thread trips guarantee(events != NULL), for every
\* combination of LogEvents and JVMCIEventLogLevel: whenever the level check
\* passes, the buffer selected for the level was created by initialize_globals.
C19_GuaranteeHolds ==
  /\ [](globalsInit =>
         \A level \in EventLevels :
           LogEvents /\ JVMCIEventLogLevel >= level =>
             IF level = 1 THEN ~events.null ELSE ~verbose_events.null)
  /\ [][\A level \in EventLevels, thread \in Threads :
          globalsInit /\ event(level, thread) => ~vm_fatal']_vars

\* After initialize_globals with verbosity 4, a level-1 event and a level-4
\* event of attached threads passed the guarantee and were recorded.
C19_Witness ==
  /\ globalsInit /\ LogEvents /\ JVMCIEventLogLevel = max_EventLog_level
  /\ JVMCITraceLevel = max_EventLog_level
  /\ ~vm_fatal /\ nEvents = 2
  /\ Len(events.entries) = 1 /\ Len(verbose_events.entries) = 1
  /\ tty[1].level = 1 /\ tty[2].level = max_EventLog_level

\* ---- exclusion of compiler threads
\* The ThreadsList without the compiler threads.
NonCompilerList == SelectSeq(threadsList, LAMBDA t : t \notin CompilerThreads)

\* C20: with JVMCICountersExcludeCompiler enabled and unchanged, the counters
\* of a compiler thread never enter a collect_counters result, neither while
\* the thread is live nor after it has retired: accumulate_counters leaves the
\* retired pool as it is for a compiler thread, and collect_counters returns
\* what it returns for the ThreadsList without the compiler threads.
C20_CompilerExcluded ==
  [][JVMCICountersExcludeCompiler =>
       /\ JVMCICountersExcludeCompiler'
       /\ \A t \in CompilerThreads :
            FoldStep(t) => jvmci_old_thread_counters' = jvmci_old_thread_counters
       /\ lastOp'.op = "collect" =>
            \E g \in Garbage : array' = collect_over(NonCompilerList, JVMCICounterSize, g)]_vars

\* With the policy enabled, the compiler thread incremented its counter and
\* retired, another thread incremented the same counter, and a collect
\* returned the other thread's increment only.
C20_Witness ==
  /\ JVMCICountersExcludeCompiler /\ ~oob
  /\ lastOp.op = "collect"
  /\ \E c \in CompilerThreads, t \in Threads \ CompilerThreads :
       /\ tstate[c] = "freed" /\ tstate[t] = "live"
       /\ jvmci_counters[c].a = <<1>> /\ jvmci_counters[t].a = <<1>>
       /\ array = <<1>>

\* ------------------------------------------------------------------ specifications
\* The statics of lines 42-53 and 296 before anything has run.
StartCounters ==
  /\ jvmci_old_thread_counters = NULLP
  /\ jvmci_counters = [t \in Threads |-> NULLP]
  /\ threadsList = <<>>
  /\ tstate = [t \in Threads |-> "new"]
  /\ countersInit = FALSE
  /\ array = <<>>
  /\ lastOp = NoOp
  /\ oob = FALSE
  /\ freed = {}
  /\ pool_freed = FALSE
  /\ nIncr = 0
  /\ nFail = 0

StartLife ==
  /\ events = NoLog
  /\ verbose_events = NoLog
  /\ tty = <<>>
  /\ nEvents = 0
  /\ globalsInit = FALSE
  /\ compiler_runtime = NoRuntime
  /\ java_runtime = NoRuntime
  /\ in_shutdown = FALSE
  /\ rt_shutdowns = [t \in Threads |-> [r \in Runtimes |-> 0]]
  /\ shutdown_calls = [t \in Threads |-> 0]
  /\ JVMCI_lock = NoThread
  /\ shared_library_handle = NoHandle
  /\ shared_library_path = NoPath
  /\ dll_loads = 0
  /\ vm_fatal = FALSE
  /\ pc = [t \in Threads |-> "idle"]
  /\ frame = [t \in Threads |-> NoFrame]
  /\ gsl_ret = [t \in Threads |-> NoRet]
  /\ nCalls = [t \in Threads |-> 0]

StartFatal ==
  /\ fatal_log_init_thread = invalid_id
  /\ fatal_log_fd = NoFd
  /\ fatal_log_filename = "NULL"
  /\ fpc = [t \in Threads |-> "idle"]
  /\ log_fd = [t \in Threads |-> NoFd]
  /\ writes = <<>>
  /\ resolvers = <<>>
  /\ nFatal = [t \in Threads |-> 0]

\* The flags a specification does not exercise, at their defaults.
DefaultFatalFlags ==
  /\ ErrorFileToStdout = FALSE
  /\ ErrorFileToStderr = FALSE

DefaultCounterFlags ==
  /\ JVMCICounterSize = 0
  /\ JVMCICountersExcludeCompiler = FALSE

DefaultLifeFlags ==
  /\ LogEvents = TRUE
  /\ JVMCIEventLogLevel = 1
  /\ JVMCITraceLevel = 0
  /\ LogEventsBufferEntries = 1
  /\ UseJVMCINativeLibrary = FALSE
  /\ JVMCILibPath = NoPath

\* The counter registry.
InitCounters ==
  /\ JVMCICounterSize \in 0..MaxSize
  /\ JVMCICountersExcludeCompiler \in BOOLEAN
  /\ StartCounters
  /\ DefaultLifeFlags /\ StartLife
  /\ DefaultFatalFlags /\ StartFatal

NextCounters ==
  \/ init_counters
  \/ \E t \in Threads : ThreadStart(t)
  \/ \E t \in Threads, i \in 1..MaxSize : Increment(t, i)
  \/ \E g \in Garbage : collect_counters(g)
  \/ \E t \in Threads, g \in Garbage : accumulate_counters(t, g)
  \/ \E t \in Threads : ThreadRemove(t)
  \/ \E t \in Threads : free_counters_thread(t)
  \/ free_counters
  \/ \E n \in 1..MaxSize, f \in 0..(NThreads + 1), g \in Garbage :
       resize_all_jvmci_counters(n, f, g)

SpecCounters == InitCounters /\ [][NextCounters]_vars

\* The event/trace log.
InitLog ==
  /\ LogEvents \in BOOLEAN
  /\ JVMCIEventLogLevel \in 0..(max_EventLog_level + 1)
  /\ JVMCITraceLevel \in 0..max_EventLog_level
  /\ LogEventsBufferEntries \in 1..MaxEntries
  /\ UseJVMCINativeLibrary = FALSE
  /\ JVMCILibPath = NoPath
  /\ StartLife
  /\ DefaultCounterFlags /\ StartCounters
  /\ DefaultFatalFlags /\ StartFatal

NextLog ==
  \/ initialize_globals
  \/ \E level \in 1..max_EventLog_level, thread \in Threads \cup {NoThread} :
       event(level, thread)

SpecLog == InitLog /\ [][NextLog]_vars

\* The library loader and shutdown.
InitLib ==
  /\ LogEvents \in BOOLEAN
  /\ JVMCIEventLogLevel = 1
  /\ JVMCITraceLevel = 1
  /\ LogEventsBufferEntries = 1
  /\ UseJVMCINativeLibrary \in BOOLEAN
  /\ JVMCILibPath \in {NoPath, <<"JVMCILibPath">>}
  /\ StartLife
  /\ DefaultCounterFlags /\ StartCounters
  /\ DefaultFatalFlags /\ StartFatal

NextLib ==
  \/ initialize_globals
  \/ \E t \in Threads, load \in BOOLEAN : get_shared_library_call(t, load)
  \/ \E t \in Threads : gsl_read_handle(t)
  \/ \E t \in Threads : gsl_fast_return(t)
  \/ \E t \in Threads : gsl_recheck(t)
  \/ \E t \in Threads, locate_ok \in BOOLEAN, load_ok \in BOOLEAN :
       gsl_load(t, locate_ok, load_ok)
  \/ \E t \in Threads : gsl_store_handle(t)
  \/ \E t \in Threads : gsl_store_path(t)
  \/ \E t \in Threads : gsl_event(t)
  \/ \E t \in Threads : gsl_slow_return(t)
  \/ \E t \in Threads : gsl_unlock(t)
  \/ \E t \in Threads : shutdown_lock(t)
  \/ \E t \in Threads : shutdown_set_flag(t)
  \/ \E t \in Threads : shutdown_event(t)
  \/ \E t \in Threads : shutdown_unlock(t)
  \/ \E t \in Threads : shutdown_java_runtime(t)
  \/ \E t \in Threads : shutdown_compiler_runtime(t)

SpecLib == InitLib /\ [][NextLib]_vars

\* The crash logger.
InitFatal ==
  /\ ErrorFileToStdout \in BOOLEAN
  /\ ErrorFileToStderr \in BOOLEAN
  /\ StartFatal
  /\ DefaultCounterFlags /\ StartCounters
  /\ DefaultLifeFlags /\ StartLife

NextFatal ==
  \/ \E t \in Threads : fatal_log_call(t)
  \/ \E t \in Threads : fl_check(t)
  \/ \E t \in Threads : fl_cmpxchg(t)
  \/ \E t \in Threads, fd \in OpenFds \cup {NoFd} : fl_resolve(t, fd)
  \/ \E t \in Threads : fl_publish(t)
  \/ \E t \in Threads : fl_spin(t)
  \/ \E t \in Threads : fl_write(t)

SpecFatal == InitFatal /\ [][NextFatal]_vars

\* The operating system schedules every thread: a thread inside fatal_log
\* that can take a step eventually takes one.
FairSpecFatal ==
  InitFatal /\ [][NextFatal]_vars /\ \A t \in Threads : WF_vars(fatal_log_step(t))
====
